---- MODULE Spec2Model ----
(***************************************************************************)
(* State-machine model of the streaming recognition pipeline of            *)
(* sl-interpreter: GestureSmoother (the spec's GestureDebouncer),          *)
(* TemporalBuffer (TemporalWindow), ConfidenceFilter, CameraManager,       *)
(* GestureClassifier with the ModelLoader it calls, and the handlers of    *)
(* server.py that drive buffer, classifier and filter.                     *)
(*                                                                         *)
(* Each component is driven by its own specifications (SpecSmoother,       *)
(* SpecBuffer, SpecFilter, SpecCamera, SpecSlot, SpecRate, SpecTopK,       *)
(* SpecClassifier); a component specification keeps the variables of the   *)
(* other components fixed.  SpecPipeline drives the buffer, the classifier *)
(* and the filter together, as the server's handlers do.                   *)
(*                                                                         *)
(* Variables whose names start with g are history (ghost) variables: they  *)
(* record facts about the calls made so far, computed from the inputs and  *)
(* the returned values only, never from the component's own fields.        *)
(***************************************************************************)
EXTENDS Integers, Sequences, FiniteSets, TLC

None == "none"
NoEvent == <<>>                    \* update returned None

(***************************************************************************)
(* collections.deque(maxlen=n).append(x): with maxlen 0 nothing is kept,   *)
(* a full deque drops its oldest (leftmost) element first.                 *)
(***************************************************************************)
DequeAppend(q, x, maxlen) ==
    IF maxlen = 0 THEN <<>>
    ELSE IF Len(q) >= maxlen THEN Append(Tail(q), x)
    ELSE Append(q, x)

(***************************************************************************)
(*                 GestureSmoother  (gesture_smoother.py)                  *)
(***************************************************************************)

\* Bounds of the smoother model.  Times are integer clock ticks.
ClockStart == 4      \* time.time() at construction; above any cooldown
Horizon == 6         \* ticks of clock explored after construction
MaxUpdates == 6      \* update calls explored
MaxStep == 3         \* largest clock advance between two calls

\* Program constant: maxlen of output_history.
OutputHistoryMaxlen == 10

Labels == {"A", "B"}
Confs == {70, 95}                  \* confidences, in percent
MinDurations == {0, 2}             \* min_duration, in ticks
Cooldowns == {0, 3}                \* cooldown, in ticks

VARIABLES
    min_duration, cooldown,        \* constructor arguments
    now,                           \* the last value time.time() returned
    current_gesture, gesture_start_time, last_output_time, output_history,
    sOut,                          \* what the last update returned
    nUpdates,                      \* update calls made so far
    gRun,                          \* current maximal run of equal labels
    gEmits,                        \* every event returned so far
    gSince,                        \* what happened since the last event
    gFed,                          \* labels fed since construction
    gCall                          \* the last update call, as observed

smootherVars == <<min_duration, cooldown, now, current_gesture,
                  gesture_start_time, last_output_time, output_history,
                  sOut, nUpdates, gRun, gEmits, gSince, gFed, gCall>>

NoRun == [label |-> None, start |-> 0, len |-> 0, due |-> 0]
NoCall == [label |-> None, cont |-> FALSE, held |-> 0, gap |-> -1,
           prevEmit |-> None, resetSince |-> FALSE, diffSince |-> FALSE,
           due |-> 0]

\* GestureSmoother.__init__
SmootherInit ==
    /\ min_duration \in MinDurations
    /\ cooldown \in Cooldowns
    /\ now = ClockStart
    /\ current_gesture = None
    /\ gesture_start_time = 0
    /\ last_output_time = 0
    /\ output_history = <<>>
    /\ sOut = NoEvent
    /\ nUpdates = 0
    /\ gRun = NoRun
    /\ gEmits = <<>>
    /\ gSince = [reset |-> FALSE, diff |-> FALSE, everReset |-> FALSE]
    /\ gFed = {}
    /\ gCall = NoCall

\* The smoother left as constructed with the defaults (other specifications).
SmootherIdle ==
    /\ SmootherInit
    /\ min_duration = 2
    /\ cooldown = 3

\* line 29: prediction != self.current_gesture
IsNewGesture(prediction) == prediction # current_gesture

\* Faulty variants of HeldTooShort: the hold measured from the wrong timer; and an
\* off-by-one comparison.
HeldTooShortWrongTimer(current_time) ==
    current_time - last_output_time < min_duration

HeldTooShortInclusive(current_time) ==
    current_time - gesture_start_time <= min_duration

\* lines 36-39: duration = current_time - gesture_start_time; duration < min_duration
HeldTooShort(current_time) == current_time - gesture_start_time < min_duration

\* Faulty variants of InCooldown: the check left out; and an off-by-one comparison.
InCooldownOff(current_time) == FALSE

InCooldownInclusive(current_time) ==
    current_time - last_output_time <= cooldown

\* line 42: current_time - self.last_output_time < self.cooldown
InCooldown(current_time) == current_time - last_output_time < cooldown

\* Faulty variant of SameAsLastOutput: the oldest output inspected, not the last.
SameAsFirstOutput(prediction) ==
    /\ output_history # <<>>
    /\ output_history[1][1] = prediction

\* line 46: self.output_history and self.output_history[-1][0] == prediction
SameAsLastOutput(prediction) ==
    /\ output_history # <<>>
    /\ output_history[Len(output_history)][1] = prediction

\* Whether update(prediction, ...) at current_time outputs the gesture.
Outputs(prediction, current_time) ==
    /\ ~IsNewGesture(prediction)
    /\ ~HeldTooShort(current_time)
    /\ ~InCooldown(current_time)
    /\ ~SameAsLastOutput(prediction)

\* History variables after an update of `prediction` at current_time that
\* returned `out`.
GhostUpdate(prediction, current_time, out) ==
    LET cont == gRun.label = prediction
        start == IF cont THEN gRun.start ELSE current_time
        held == current_time - start
        isDue == cont /\ held >= min_duration
        due == IF ~cont THEN 0
               ELSE IF gRun.due >= 1 THEN 2
               ELSE IF isDue THEN 1 ELSE 0
        emitted == gEmits # <<>>
        last == gEmits[Len(gEmits)]
        diff == gSince.diff \/ (emitted /\ prediction # last.label)
    IN  /\ gRun' = [label |-> prediction, start |-> start,
                    len |-> IF cont THEN 2 ELSE 1, due |-> due]
        /\ gCall' = [label |-> prediction, cont |-> cont, held |-> held,
                     gap |-> IF ~emitted THEN -1
                             ELSE current_time - last.time,
                     prevEmit |-> IF ~emitted THEN None ELSE last.label,
                     resetSince |-> gSince.reset, diffSince |-> diff,
                     due |-> due]
        /\ gFed' = gFed \cup {prediction}
        /\ IF out = NoEvent
             THEN /\ gEmits' = gEmits
                  /\ gSince' = [gSince EXCEPT !.diff = diff]
             ELSE /\ gEmits' = Append(gEmits, [label |-> out[1],
                                               time |-> current_time])
                  /\ gSince' = [gSince EXCEPT !.diff = FALSE,
                                              !.reset = FALSE]

\* GestureSmoother.update, called dt ticks after the previous call.
SmootherUpdate(prediction, confidence, dt) ==
    LET current_time == now + dt
        out == IF Outputs(prediction, current_time)
               THEN <<prediction, confidence>> ELSE NoEvent
    IN  /\ nUpdates < MaxUpdates
        /\ current_time <= ClockStart + Horizon
        /\ now' = current_time
        /\ nUpdates' = nUpdates + 1
        /\ sOut' = out
        /\ IF IsNewGesture(prediction)
             THEN /\ current_gesture' = prediction
                  /\ gesture_start_time' = current_time
                  /\ UNCHANGED <<last_output_time, output_history>>
             ELSE IF out # NoEvent
             THEN /\ last_output_time' = current_time
                  /\ output_history' =
                        DequeAppend(output_history,
                                    <<prediction, confidence, current_time>>,
                                    OutputHistoryMaxlen)
                  /\ UNCHANGED <<current_gesture, gesture_start_time>>
             ELSE UNCHANGED <<current_gesture, gesture_start_time,
                              last_output_time, output_history>>
        /\ GhostUpdate(prediction, current_time, out)
        /\ UNCHANGED <<min_duration, cooldown>>

\* GestureSmoother.reset: last_output_time is left as it is.
SmootherReset ==
    /\ current_gesture' = None
    /\ gesture_start_time' = 0
    /\ output_history' = <<>>
    /\ gRun' = NoRun
    /\ gSince' = [gSince EXCEPT !.reset = TRUE, !.everReset = TRUE]
    /\ UNCHANGED <<min_duration, cooldown, now, last_output_time, sOut,
                   nUpdates, gEmits, gFed, gCall>>

(***************************************************************************)
(*                  TemporalBuffer  (temporal_buffer.py)                   *)
(***************************************************************************)

\* Bounds of the buffer model.
MaxWindow == 3       \* largest window_size constructed or resized to
MaxPushes == 4       \* adds logged since the buffer was last emptied

\* feature_size = None
NoSize == -1

\* Feature vectors (numpy arrays): two of length 1, one of length 2.
Vectors == {<<0>>, <<1>>, <<0, 0>>}

VARIABLES
    window_size,                   \* TemporalBuffer.window_size
    buffer,                        \* contents of the deque, oldest first
    bufMaxlen,                     \* maxlen of the deque object in `buffer`
    feature_size,
    bRet,                          \* the last call and what it returned
    gBefore,                       \* buffer and window_size before that call
    gPushed,                       \* vectors added since last empty
    gFixed                         \* window_size never changed so far

bufferVars == <<window_size, buffer, bufMaxlen, feature_size, bRet, gBefore,
                gPushed, gFixed>>

\* A call's outcome: the operation, its argument, whether it returned None,
\* the returned window otherwise, and the exception it raised ("" if none).
Ret(op, arg, isNone, seq, err) ==
    [op |-> op, arg |-> arg, none |-> isNone, seq |-> seq, err |-> err]

\* TemporalBuffer.__init__(window_size)
BufferInit ==
    /\ window_size \in 1..MaxWindow
    /\ buffer = <<>>
    /\ bufMaxlen = window_size
    /\ feature_size = NoSize
    /\ bRet = Ret("init", window_size, TRUE, <<>>, "")
    /\ gBefore = [buffer |-> <<>>, window_size |-> window_size]
    /\ gPushed = <<>>
    /\ gFixed = TRUE

\* The buffer left as constructed (other specifications).
BufferIdle ==
    /\ BufferInit
    /\ window_size = MaxWindow

Snapshot == [buffer |-> buffer, window_size |-> window_size]

\* TemporalBuffer.add: feature_size is recorded once and never compared.
BufferAdd(landmarks) ==
    /\ gFixed => Len(gPushed) < MaxPushes
    /\ feature_size' = IF feature_size = NoSize THEN Len(landmarks)
                       ELSE feature_size
    /\ buffer' = DequeAppend(buffer, landmarks, bufMaxlen)
    /\ bRet' = Ret("add", Len(landmarks), TRUE, <<>>, "")
    /\ gBefore' = Snapshot
    /\ gPushed' = IF gFixed THEN Append(gPushed, landmarks) ELSE gPushed
    /\ UNCHANGED <<window_size, bufMaxlen, gFixed>>

\* Faulty variant of NotFull: off by one.
NotFullOffByOne(b, n) == Len(b) < n - 1

\* line 35: len(self.buffer) < self.window_size
NotFull(b, n) == Len(b) < n

\* TemporalBuffer.get_sequence: None unless full, else a copy of the buffer.
BufferGetSequence ==
    /\ bRet' = IF NotFull(buffer, window_size)
               THEN Ret("get_sequence", 0, TRUE, <<>>, "")
               ELSE Ret("get_sequence", 0, FALSE, buffer, "")
    /\ gBefore' = Snapshot
    /\ UNCHANGED <<window_size, buffer, bufMaxlen, feature_size, gPushed,
                   gFixed>>

\* lines 49-50: sequence.insert(0, sequence[0]) while len(sequence) < window_size
RECURSIVE PadFront(_, _)
PadFront(sequence, n) ==
    IF Len(sequence) < n THEN PadFront(<<sequence[1]>> \o sequence, n)
    ELSE sequence

\* TemporalBuffer.get_partial_sequence
BufferGetPartialSequence ==
    /\ bRet' = IF Len(buffer) = 0
               THEN Ret("get_partial_sequence", 0, TRUE, <<>>, "")
               ELSE Ret("get_partial_sequence", 0, FALSE,
                        PadFront(buffer, window_size), "")
    /\ gBefore' = Snapshot
    /\ UNCHANGED <<window_size, buffer, bufMaxlen, feature_size, gPushed,
                   gFixed>>

\* TemporalBuffer.clear: feature_size is kept.
BufferClear ==
    /\ buffer' = <<>>
    /\ bRet' = Ret("clear", 0, TRUE, <<>>, "")
    /\ gBefore' = Snapshot
    /\ gPushed' = <<>>
    /\ UNCHANGED <<window_size, bufMaxlen, feature_size, gFixed>>

\* Faulty variant of LastItems: old_data[:new_size], the oldest items.
FirstItems(old_data, new_size) ==
    IF new_size >= Len(old_data) THEN old_data
    ELSE SubSeq(old_data, 1, new_size)

\* line 67: old_data[-new_size:] (Python slice: -0 is 0, so new_size 0 gives
\* the whole list; a start before the list's beginning is clamped).
LastItems(old_data, new_size) ==
    IF new_size = 0 THEN old_data
    ELSE IF new_size < 0 THEN SubSeq(old_data, 1 - new_size, Len(old_data))
    ELSE IF new_size >= Len(old_data) THEN old_data
    ELSE SubSeq(old_data, Len(old_data) - new_size + 1, Len(old_data))

\* lines 67-68: for item in ...: self.buffer.append(item)
RECURSIVE AppendAll(_, _, _)
AppendAll(q, items, maxlen) ==
    IF items = <<>> THEN q
    ELSE AppendAll(DequeAppend(q, Head(items), maxlen), Tail(items), maxlen)

\* TemporalBuffer.resize: window_size is assigned first; deque(maxlen=new_size)
\* then raises ValueError for a negative new_size, before self.buffer is
\* replaced.
BufferResize(new_size) ==
    /\ window_size' = new_size
    /\ IF new_size < 0
         THEN /\ UNCHANGED <<buffer, bufMaxlen>>
              /\ bRet' = Ret("resize", new_size, TRUE, <<>>, "ValueError")
         ELSE /\ bufMaxlen' = new_size
              /\ buffer' = AppendAll(<<>>, LastItems(buffer, new_size),
                                     new_size)
              /\ bRet' = Ret("resize", new_size, TRUE, <<>>, "")
    /\ gBefore' = Snapshot
    /\ gFixed' = FALSE
    /\ gPushed' = <<>>
    /\ UNCHANGED feature_size

\* TemporalBuffer.is_ready
is_ready == Len(buffer) >= window_size

(***************************************************************************)
(*                ConfidenceFilter  (confidence_filter.py)                 *)
(*                                                                         *)
(* Confidences, the threshold and the smoothing factor are multiples of    *)
(* 1/10.  A confidence c/10 is held as the integer c * Unit, with          *)
(* Unit = 10^MaxCalls, so that each of up to MaxCalls successive blends    *)
(* smoothing*confidence + (1-smoothing)*last_confidence is computed        *)
(* exactly (floating-point rounding is not modelled).                      *)
(***************************************************************************)

\* Bound of the filter model.
MaxCalls == 5        \* filter calls explored

\* Program constant: maxlen of history.
HistoryMaxlen == 5

Unit == 10 ^ MaxCalls

FilterConfs == {0 * Unit, 6 * Unit, 10 * Unit}   \* confidence 0, 0.6, 1.0
Thresholds == {5 * Unit, 7 * Unit}               \* 0.7 is the default
Smoothings == {3, 10}                            \* tenths; 0.3 is the default

VARIABLES
    threshold, smoothing,          \* constructor arguments
    history,                       \* deque of <<prediction, smoothed>>
    last_prediction, last_confidence,
    fRet,                          \* the last filter call, as observed
    nCalls,                        \* filter calls made so far
    gAccepted,                     \* last label filter returned since reset
    gStreak                        \* latest calls alike, each passing line 34

filterVars == <<threshold, smoothing, history, last_prediction,
                last_confidence, fRet, nCalls, gAccepted, gStreak>>

\* No call yet, or the last call's confidence or smoothed confidence was
\* under the threshold.
NoStreak == [label |-> None, len |-> 0]

NoFilterCall == [called |-> FALSE, label |-> None, conf |-> 0,
                 smoothed |-> 0, out |-> None, prevAccepted |-> None]

\* ConfidenceFilter.__init__
FilterInit ==
    /\ threshold \in Thresholds
    /\ smoothing \in Smoothings
    /\ history = <<>>
    /\ last_prediction = None
    /\ last_confidence = 0
    /\ fRet = NoFilterCall
    /\ nCalls = 0
    /\ gAccepted = None
    /\ gStreak = NoStreak

\* The filter left as constructed with the defaults (other specifications).
FilterIdle ==
    /\ FilterInit
    /\ threshold = 7 * Unit
    /\ smoothing = 3

\* Faulty variant of _smooth_confidence: the confidence is never blended.
SmoothNever(prediction, confidence) == confidence

\* ConfidenceFilter._smooth_confidence
_smooth_confidence(prediction, confidence) ==
    IF last_prediction = prediction
    THEN (smoothing * confidence + (10 - smoothing) * last_confidence) \div 10
    ELSE confidence

\* Faulty variant of BelowThreshold: compared with the smoothing factor, the other
\* constructor argument.
BelowSmoothing(smoothed_confidence) ==
    10 * smoothed_confidence < smoothing * Unit

\* line 34: smoothed_confidence < self.threshold
BelowThreshold(smoothed_confidence) == smoothed_confidence < threshold

\* Faulty variant of Recent: the three oldest entries, list(self.history)[:3].
RecentOldest(h) == IF Len(h) <= 3 THEN h ELSE SubSeq(h, 1, 3)

\* line 61: recent = list(self.history)[-3:]
Recent(h) == IF Len(h) <= 3 THEN h ELSE SubSeq(h, Len(h) - 2, Len(h))

\* ConfidenceFilter._is_stable, on the history that holds the current call
_is_stable(h, prediction) ==
    IF Len(h) < 3 THEN TRUE
    ELSE Cardinality({i \in 1..Len(Recent(h)) :
                         Recent(h)[i][1] = prediction}) >= 2

\* ConfidenceFilter.filter
FilterCall(prediction, confidence) ==
    LET smoothed_confidence == _smooth_confidence(prediction, confidence)
        h == DequeAppend(history, <<prediction, smoothed_confidence>>,
                         HistoryMaxlen)
        accepted == /\ ~BelowThreshold(smoothed_confidence)
                    /\ _is_stable(h, prediction)
        out == IF accepted THEN prediction ELSE None
    IN  /\ nCalls < MaxCalls
        /\ nCalls' = nCalls + 1
        /\ history' = h
        /\ last_prediction' = IF accepted THEN prediction ELSE last_prediction
        /\ last_confidence' = IF accepted THEN smoothed_confidence
                              ELSE last_confidence
        /\ fRet' = [called |-> TRUE, label |-> prediction,
                    conf |-> confidence, smoothed |-> smoothed_confidence,
                    out |-> out, prevAccepted |-> gAccepted]
        /\ gAccepted' = IF out # None THEN out ELSE gAccepted
        /\ gStreak' = IF confidence > threshold
                          /\ ~BelowThreshold(smoothed_confidence)
                       THEN [label |-> prediction,
                             len |-> IF gStreak.label = prediction
                                     THEN gStreak.len + 1 ELSE 1]
                       ELSE NoStreak
        /\ UNCHANGED <<threshold, smoothing>>

\* ConfidenceFilter.reset
FilterReset ==
    /\ history' = <<>>
    /\ last_prediction' = None
    /\ last_confidence' = 0
    /\ gAccepted' = None
    /\ UNCHANGED <<threshold, smoothing, fRet, nCalls, gStreak>>

(***************************************************************************)
(* CameraManager (src/src/vision/camera.py).  The main thread calls start  *)
(* and stop, a reader thread calls get_frame, and every successful start   *)
(* spawns a thread that runs _capture_loop.  Each thread takes one step at *)
(* a time; a step is one statement of the source that another thread can   *)
(* observe.  time.perf_counter() is the integer clock, in units of         *)
(* 1/Second of a second.  Intervals are whole numbers of units: a product  *)
(* by 1.1 or 0.95 is truncated to a unit where Python rounds it to a       *)
(* double, and Second = 6 * 20^5 makes the first five products exact.  The *)
(* clock advances in the steps that take time: a device read, a callback,  *)
(* a sleep.                                                                *)
(***************************************************************************)

\* Bounds of the camera model.
MaxEvents == 4       \* threads spawned and device reads, callers at work
MaxCycles == 8       \* the same, for a loop that is never stopped

\* Units of the clock in one second.
Second == 19200000

NoThread == 0                      \* self._thread is None
NoFrame == 0                       \* self._last_frame is None
Free == 0                          \* self._lock is not held
Reader == -1                       \* the thread that calls get_frame

Threads == 1..MaxEvents
Callbacks == {"f", "g"}            \* callables handed to start; g draws
Rates == {<<3, 2>>, <<2, 3>>}      \* <<target_fps, min_fps>> in the config
Latencies == {0, Second \div 2, Second}    \* time a device read can take

VARIABLES
    target_fps, min_fps, adaptive_sampling,   \* configuration
    is_running, cap, frame_callback, _thread, _lock, _last_frame,
    current_fps, _frame_times,
    acq,          \* the capture threads: position and locals of the loop
    clock,        \* time.perf_counter()
    pixels,       \* the frames read so far: frame id |-> its two halves
    nOpen,        \* device handles opened and not released
    nEvents,      \* threads spawned and device reads so far
    mPc, mRet,    \* main thread: position, and its last call as observed
    rPc, rBuf, rRet    \* reader: position, half copy, last get_frame result

cameraVars == <<target_fps, min_fps, adaptive_sampling, is_running, cap,
                frame_callback, _thread, _lock, _last_frame, current_fps,
                _frame_times, acq, clock, pixels, nOpen, nEvents, mPc, mRet,
                rPc, rBuf, rRet>>

\* frame_interval bounds: 1.0 / self.target_fps and 1.0 / self.min_fps
Floor == Second \div target_fps
Ceiling == Second \div min_fps

\* A thread that has not been spawned: its place in the loop and the
\* locals of _capture_loop.
NotSpawned == [pc |-> "none", frame |-> NoFrame, frame_interval |-> 0,
               start_time |-> 0, sleep_time |-> 0]

\* What start can change: the fields, the threads, the device handles.
Fields == <<is_running, cap, frame_callback, _thread, _last_frame, acq,
            nOpen>>

\* A call of the main thread: same tells whether it left Fields as they
\* were.
NoMainCall == [op |-> "none", wasRunning |-> FALSE, err |-> "",
               timedOut |-> FALSE, same |-> TRUE]

\* A result of get_frame: None, or the copy and the frame it was made of.
NoFrameRet == [called |-> FALSE, none |-> TRUE, px |-> <<>>,
               frame |-> NoFrame]

\* CameraManager.__init__
CameraInit ==
    /\ \E r \in Rates : target_fps = r[1] /\ min_fps = r[2]
    /\ adaptive_sampling \in BOOLEAN
    /\ is_running = FALSE
    /\ cap = None
    /\ frame_callback = None
    /\ _thread = NoThread
    /\ _lock = Free
    /\ _last_frame = NoFrame
    /\ current_fps = 0
    /\ _frame_times = <<>>
    /\ acq = [t \in Threads |-> NotSpawned]
    /\ clock = 0
    /\ pixels = <<>>
    /\ nOpen = 0
    /\ nEvents = 0
    /\ mPc = "idle"
    /\ mRet = NoMainCall
    /\ rPc = "idle"
    /\ rBuf = 0
    /\ rRet = NoFrameRet

\* The camera left as constructed from the default kind of config: adaptive
\* sampling on, min_fps below target_fps (other specifications).
CameraIdle ==
    /\ CameraInit
    /\ adaptive_sampling = TRUE
    /\ min_fps <= target_fps

\* Faulty variant of AlreadyRunning: start without its guard.
AlreadyRunningNever == FALSE

\* line 37: if self.is_running
AlreadyRunning == is_running

\* The thread has left _capture_loop, by its test or by an exception.
Ended(t) == acq[t].pc \in {"done", "crashed"}

\* The number of the next thread spawned.
NextPlace == Cardinality({t \in Threads : acq[t].pc # "none"}) + 1

\* CameraManager.start(callback); opens says whether the device opens.  A
\* start that finds the source running returns at line 39.  Otherwise
\* self.cap is assigned first (line 41), and RuntimeError leaves it
\* assigned when the device did not open.  limit bounds the events explored.
Start(callback, opens, limit) ==
    /\ mPc = "idle"
    /\ IF AlreadyRunning
         THEN UNCHANGED <<is_running, cap, frame_callback, _thread, acq,
                         nOpen, nEvents>>
         ELSE IF ~opens
         THEN /\ cap' = "unopened"
              /\ UNCHANGED <<is_running, frame_callback, _thread, acq,
                             nOpen, nEvents>>
         ELSE /\ nEvents < limit
              /\ nEvents' = nEvents + 1
              /\ cap' = "open"
              /\ nOpen' = nOpen + 1
              /\ frame_callback' = callback
              /\ is_running' = TRUE
              /\ _thread' = NextPlace
              /\ acq' = [acq EXCEPT ![NextPlace] =
                            [NotSpawned EXCEPT !.pc = "test",
                                               !.frame_interval = Floor]]
    /\ UNCHANGED <<target_fps, min_fps, adaptive_sampling, _lock,
                   _last_frame, current_fps, _frame_times, clock, pixels,
                   mPc, rPc, rBuf, rRet>>
    /\ mRet' = [op |-> "start", wasRunning |-> is_running,
                err |-> IF ~AlreadyRunning /\ ~opens THEN "RuntimeError"
                        ELSE "",
                timedOut |-> FALSE, same |-> Fields' = Fields]

\* line 62: self.is_running = False
Cleared == FALSE

\* CameraManager.stop, lines 62-65: the flag is cleared and the caller
\* starts waiting in join.
StopSignal ==
    /\ mPc = "idle"
    /\ is_running' = Cleared
    /\ mPc' = "joining"
    /\ UNCHANGED <<target_fps, min_fps, adaptive_sampling, cap,
                   frame_callback, _thread, _lock, _last_frame, current_fps,
                   _frame_times, acq, clock, pixels, nOpen, nEvents,
                   mRet, rPc, rBuf, rRet>>

\* CameraManager.stop, lines 65-72: join(timeout=1.0) returns, because the
\* thread ended or because the second ran out (the thread is then left
\* running); the handle is released and forgotten.
StopFinish ==
    /\ mPc = "joining"
    /\ mPc' = "idle"
    /\ _thread' = NoThread
    /\ nOpen' = IF cap = "open" THEN nOpen - 1 ELSE nOpen
    /\ cap' = None
    /\ mRet' = [op |-> "stop", wasRunning |-> FALSE, err |-> "",
                timedOut |-> _thread # NoThread /\ ~Ended(_thread),
                same |-> FALSE]
    /\ UNCHANGED <<target_fps, min_fps, adaptive_sampling, is_running,
                   frame_callback, _lock, _last_frame, current_fps,
                   _frame_times, acq, clock, pixels, nEvents, rPc,
                   rBuf, rRet>>

\* CameraManager.get_frame, line 77: with self._lock
ReaderAcquire ==
    /\ rPc = "idle"
    /\ _lock = Free
    /\ _lock' = Reader
    /\ rPc' = "locked"
    /\ UNCHANGED <<target_fps, min_fps, adaptive_sampling, is_running, cap,
                   frame_callback, _thread, _last_frame, current_fps,
                   _frame_times, acq, clock, pixels, nOpen, nEvents,
                   mPc, mRet, rBuf, rRet>>

\* line 78, self._last_frame is None: None is returned and the lock freed.
ReaderReturnNone ==
    /\ rPc = "locked"
    /\ _last_frame = NoFrame
    /\ rRet' = [called |-> TRUE, none |-> TRUE, px |-> <<>>,
                frame |-> NoFrame]
    /\ _lock' = Free
    /\ rPc' = "idle"
    /\ UNCHANGED <<target_fps, min_fps, adaptive_sampling, is_running, cap,
                   frame_callback, _thread, _last_frame, current_fps,
                   _frame_times, acq, clock, pixels, nOpen, nEvents,
                   mPc, mRet, rBuf>>

\* line 78, self._last_frame.copy(): the first half of the array is copied.
ReaderCopyLo ==
    /\ rPc = "locked"
    /\ _last_frame # NoFrame
    /\ rBuf' = pixels[_last_frame][1]
    /\ rPc' = "copying"
    /\ UNCHANGED <<target_fps, min_fps, adaptive_sampling, is_running, cap,
                   frame_callback, _thread, _lock, _last_frame, current_fps,
                   _frame_times, acq, clock, pixels, nOpen, nEvents,
                   mPc, mRet, rRet>>

\* line 78: the second half is copied, the copy returned, the lock freed.
ReaderCopyHi ==
    /\ rPc = "copying"
    /\ rRet' = [called |-> TRUE, none |-> FALSE,
                px |-> <<rBuf, pixels[_last_frame][2]>>,
                frame |-> _last_frame]
    /\ rBuf' = 0
    /\ _lock' = Free
    /\ rPc' = "idle"
    /\ UNCHANGED <<target_fps, min_fps, adaptive_sampling, is_running, cap,
                   frame_callback, _thread, _last_frame, current_fps,
                   _frame_times, acq, clock, pixels, nOpen, nEvents,
                   mPc, mRet>>

Min2(a, b) == IF a < b THEN a ELSE b
Max2(a, b) == IF a > b THEN a ELSE b

\* line 90: while self.is_running; line 91 takes start_time.  A thread that
\* leaves the loop has no locals any more.
LoopTest(t) ==
    /\ acq[t].pc = "test"
    /\ acq' = [acq EXCEPT ![t] =
                  IF is_running
                  THEN [@ EXCEPT !.pc = "read", !.start_time = clock]
                  ELSE [NotSpawned EXCEPT !.pc = "done"]]
    /\ UNCHANGED <<target_fps, min_fps, adaptive_sampling, is_running, cap,
                   frame_callback, _thread, _lock, _last_frame, current_fps,
                   _frame_times, clock, pixels, nOpen, nEvents,
                   mPc, mRet, rPc, rBuf, rRet>>

\* Faulty variant of AfterFailedRead: break instead of continue.
AfterFailedReadBreak == "done"

\* lines 95-98: a failed read is logged and followed by the back-off sleep.
AfterFailedRead == "backoff"

\* line 93: ret, frame = self.cap.read(), which takes d units of time.  With
\* self.cap None (stop has run) the attribute lookup raises and the thread
\* dies; a handle that did not open gives no frame; an open device gives a
\* new frame (ok) or none.  limit bounds the events explored.
DeviceRead(t, d, ok, limit) ==
    /\ acq[t].pc = "read"
    /\ clock' = clock + d
    /\ IF cap = None
         THEN /\ acq' = [acq EXCEPT ![t] =
                             [NotSpawned EXCEPT !.pc = "crashed"]]
              /\ UNCHANGED <<pixels, nEvents>>
         ELSE /\ nEvents < limit
              /\ nEvents' = nEvents + 1
              /\ IF cap = "open" /\ ok
                   THEN /\ pixels' = Append(pixels, <<Len(pixels) + 1,
                                                      Len(pixels) + 1>>)
                        /\ acq' = [acq EXCEPT ![t].pc = "store",
                                              ![t].frame = Len(pixels) + 1]
                   ELSE /\ acq' = [acq EXCEPT ![t].pc = AfterFailedRead]
                        /\ UNCHANGED pixels
    /\ UNCHANGED <<target_fps, min_fps, adaptive_sampling, is_running, cap,
                   frame_callback, _thread, _lock, _last_frame, current_fps,
                   _frame_times, nOpen, mPc, mRet, rPc, rBuf, rRet>>

\* lines 97-98: time.sleep(0.1); continue
BackoffSleep(t) ==
    /\ acq[t].pc = "backoff"
    /\ clock' = clock + Second \div 10
    /\ acq' = [acq EXCEPT ![t].pc = "test"]
    /\ UNCHANGED <<target_fps, min_fps, adaptive_sampling, is_running, cap,
                   frame_callback, _thread, _lock, _last_frame, current_fps,
                   _frame_times, pixels, nOpen, nEvents, mPc, mRet,
                   rPc, rBuf, rRet>>

\* line 100: with self._lock
StoreAcquire(t) ==
    /\ acq[t].pc = "store"
    /\ _lock = Free
    /\ _lock' = t
    /\ acq' = [acq EXCEPT ![t].pc = "locked"]
    /\ UNCHANGED <<target_fps, min_fps, adaptive_sampling, is_running, cap,
                   frame_callback, _thread, _last_frame, current_fps,
                   _frame_times, clock, pixels, nOpen, nEvents,
                   mPc, mRet, rPc, rBuf, rRet>>

\* Faulty variant of LockAfterStore: the lock is kept into the callback.
LockAfterStoreKept(t) == t

\* line 101, leaving the with block: the lock is released.
LockAfterStore(t) == Free

\* line 101: self._last_frame = frame, the object that read returned; then
\* line 104 tests self.frame_callback.
StoreRelease(t) ==
    /\ acq[t].pc = "locked"
    /\ _last_frame' = acq[t].frame
    /\ _lock' = LockAfterStore(t)
    /\ acq' = [acq EXCEPT ![t].pc = IF frame_callback # None
                                    THEN "callback" ELSE "fps"]
    /\ UNCHANGED <<target_fps, min_fps, adaptive_sampling, is_running, cap,
                   frame_callback, _thread, current_fps, _frame_times,
                   clock, pixels, nOpen, nEvents, mPc, mRet, rPc,
                   rBuf, rRet>>

\* line 106: self.frame_callback(frame) runs on the array the slot holds.
\* The callback g draws on its argument, one half at a time.
CallbackDraw(t) ==
    /\ acq[t].pc = "callback"
    /\ frame_callback = "g"
    /\ pixels[acq[t].frame] # <<0, 0>>
    /\ pixels' = [pixels EXCEPT ![acq[t].frame] =
                     IF @[1] # 0 THEN <<0, @[2]>> ELSE <<0, 0>>]
    /\ UNCHANGED <<target_fps, min_fps, adaptive_sampling, is_running, cap,
                   frame_callback, _thread, _lock, _last_frame, current_fps,
                   _frame_times, acq, clock, nOpen, nEvents, mPc,
                   mRet, rPc, rBuf, rRet>>

\* line 106: the callback returns after d units of time.
CallbackReturn(t, d) ==
    /\ acq[t].pc = "callback"
    /\ clock' = clock + d
    /\ acq' = [acq EXCEPT ![t].pc = "fps"]
    /\ UNCHANGED <<target_fps, min_fps, adaptive_sampling, is_running, cap,
                   frame_callback, _thread, _lock, _last_frame, current_fps,
                   _frame_times, pixels, nOpen, nEvents, mPc, mRet,
                   rPc, rBuf, rRet>>

\* line 107: except Exception catches what the callback raises.
AfterCallbackError == "except"

\* line 106: the callback raises an Exception.
CallbackRaise(t) ==
    /\ acq[t].pc = "callback"
    /\ acq' = [acq EXCEPT ![t].pc = AfterCallbackError]
    /\ UNCHANGED <<target_fps, min_fps, adaptive_sampling, is_running, cap,
                   frame_callback, _thread, _lock, _last_frame, current_fps,
                   _frame_times, clock, pixels, nOpen, nEvents,
                   mPc, mRet, rPc, rBuf, rRet>>

\* line 108: the error is logged, and the loop goes on to line 111.
LogError(t) ==
    /\ acq[t].pc = "except"
    /\ acq' = [acq EXCEPT ![t].pc = "fps"]
    /\ UNCHANGED <<target_fps, min_fps, adaptive_sampling, is_running, cap,
                   frame_callback, _thread, _lock, _last_frame, current_fps,
                   _frame_times, clock, pixels, nOpen, nEvents, mPc, mRet,
                   rPc, rBuf, rRet>>

\* CameraManager._update_fps: the timestamps of the last second, this one
\* included (lines 126-133).
RecentTimes(current_time) ==
    SelectSeq(Append(_frame_times, current_time),
              LAMBDA x : x > current_time - Second)

\* Faulty variant of _adapt_frame_rate: the ceiling is not applied.
AdaptUnclamped(current_interval, fps) ==
    IF fps < min_fps THEN (current_interval * 11) \div 10
    ELSE IF 100 * fps > 95 * target_fps
    THEN Max2((current_interval * 19) \div 20, Floor)
    ELSE current_interval

\* Faulty variant of _adapt_frame_rate: the two factors are exchanged.
AdaptSwapped(current_interval, fps) ==
    IF fps < min_fps THEN Max2((current_interval * 19) \div 20, Floor)
    ELSE IF 100 * fps > 95 * target_fps
    THEN Min2((current_interval * 11) \div 10, Ceiling)
    ELSE current_interval

\* Faulty variant of _adapt_frame_rate: headroom is measured against min_fps.
AdaptHeadroomOfMin(current_interval, fps) ==
    IF fps < min_fps THEN Min2((current_interval * 11) \div 10, Ceiling)
    ELSE IF 100 * fps > 95 * min_fps
    THEN Max2((current_interval * 19) \div 20, Floor)
    ELSE current_interval

\* CameraManager._adapt_frame_rate, with self.current_fps = fps
_adapt_frame_rate(current_interval, fps) ==
    IF fps < min_fps THEN Min2((current_interval * 11) \div 10, Ceiling)
    ELSE IF 100 * fps > 95 * target_fps
    THEN Max2((current_interval * 19) \div 20, Floor)
    ELSE current_interval

\* lines 111-119: _update_fps, then _adapt_frame_rate when adaptive sampling
\* is on, then sleep_time = max(0, frame_interval - elapsed).
Pace(t) ==
    LET times == RecentTimes(clock)
        fps == Len(times)
        interval == IF adaptive_sampling
                    THEN _adapt_frame_rate(acq[t].frame_interval, fps)
                    ELSE acq[t].frame_interval
        elapsed == clock - acq[t].start_time
    IN  /\ acq[t].pc = "fps"
        /\ _frame_times' = times
        /\ current_fps' = fps
        /\ acq' = [acq EXCEPT
                      ![t].pc = "sleep",
                      ![t].frame_interval = interval,
                      ![t].sleep_time = Max2(0, interval - elapsed)]
        /\ UNCHANGED <<target_fps, min_fps, adaptive_sampling, is_running,
                       cap, frame_callback, _thread, _lock, _last_frame,
                       clock, pixels, nOpen, nEvents, mPc, mRet,
                       rPc, rBuf, rRet>>

\* lines 120-121: time.sleep(sleep_time) when it is positive.
CadenceSleep(t) ==
    /\ acq[t].pc = "sleep"
    /\ clock' = clock + acq[t].sleep_time
    /\ acq' = [acq EXCEPT ![t].pc = "test"]
    /\ UNCHANGED <<target_fps, min_fps, adaptive_sampling, is_running, cap,
                   frame_callback, _thread, _lock, _last_frame, current_fps,
                   _frame_times, pixels, nOpen, nEvents, mPc, mRet,
                   rPc, rBuf, rRet>>

(***************************************************************************)
(* GestureClassifier (src/src/recognition/classifier.py) and the part of   *)
(* ModelLoader it calls.  A loader thread runs load_model and reload, a    *)
(* predictor thread runs predict and predict_top_k; the class has no lock, *)
(* so a step is one statement that reads or assigns a field.  A session is *)
(* named by the model it was created from.  Probabilities are whole        *)
(* numbers of twelfths; the backend outputs explored already sum to one,   *)
(* but for equal logits, whose softmax is uniform.                         *)
(***************************************************************************)

\* Bound of the classifier model.
MaxK == 4            \* largest k passed to predict_top_k

\* Twelfths in np.sum(probs) = 1.0
Whole == 12

NoSession == ""                    \* self.session is None
NoLabels == [sized |-> FALSE, items |-> <<>>]        \* labels is None

\* A list of labels.
LabelList(items) == [sized |-> TRUE, items |-> items]

\* Names passed to load_model; config "model" names the first.
DefaultModel == "asl_base"
ModelNames == {"asl_base", "asl_new", "gone", "empty", "unlabelled",
               "scalar", "torch", "null"}

\* models/gestures/<name> on disk: whether the directory exists, the
\* extension of the model file found ("" if none), and labels.json: whether
\* it exists, whether it holds a list, a dict or something else, and for a
\* dict whether it has the key "labels", that key's value and its values().
NoJson == [exists |-> FALSE, kind |-> "", hasLabels |-> FALSE,
           labels |-> NoLabels, values |-> <<>>]

ModelDir(model_name) ==
    CASE model_name = "asl_base" ->
           [exists |-> TRUE, ext |-> ".onnx",
            json |-> [exists |-> TRUE, kind |-> "list", hasLabels |-> FALSE,
                      labels |-> NoLabels,
                      values |-> <<"hello", "yes", "no">>]]
      [] model_name = "asl_new" ->
           [exists |-> TRUE, ext |-> ".onnx",
            json |-> [exists |-> TRUE, kind |-> "dict", hasLabels |-> FALSE,
                      labels |-> NoLabels,
                      values |-> <<"no", "thanks", "hello">>]]
      [] model_name = "gone" ->
           [exists |-> FALSE, ext |-> "", json |-> NoJson]
      [] model_name = "empty" ->
           [exists |-> TRUE, ext |-> "", json |-> NoJson]
      [] model_name = "unlabelled" ->
           [exists |-> TRUE, ext |-> ".onnx", json |-> NoJson]
      [] model_name = "scalar" ->
           [exists |-> TRUE, ext |-> ".onnx",
            json |-> [NoJson EXCEPT !.exists = TRUE, !.kind = "other"]]
      [] model_name = "torch" ->
           [exists |-> TRUE, ext |-> ".pt",
            json |-> [exists |-> TRUE, kind |-> "list", hasLabels |-> FALSE,
                      labels |-> NoLabels, values |-> <<"a", "b", "c">>]]
      [] model_name = "null" ->
           [exists |-> TRUE, ext |-> ".onnx",
            json |-> [exists |-> TRUE, kind |-> "dict", hasLabels |-> TRUE,
                      labels |-> NoLabels, values |-> <<>>]]

\* Backend outputs outputs[0][0] explored, one per label.
BackendOutputs == {<<6, 4, 2>>, <<2, 4, 6>>, <<5, 5, 2>>, <<2, 5, 5>>,
                  <<6, 3, 3>>, <<0, 0, 0>>}

VARIABLES
    session, labels, current_model,   \* GestureClassifier fields
    lPc, lLoc, lRet,     \* loader: position, locals, last call as observed
    pPc, pLoc,           \* predictor: position, locals
    pRet, tRet           \* last call of predict, and of predict_top_k

classifierVars == <<session, labels, current_model, lPc, lLoc, lRet,
                    pPc, pLoc, pRet, tRet>>

\* The fields a load can change.
Model == <<session, labels, current_model>>

NoLoad == [model_name |-> "", labels |-> NoLabels, before |-> <<>>]
NoLoadRet == [op |-> "none", model_name |-> "", err |-> "", same |-> TRUE]
NoPredict == [op |-> "none", k |-> 0, outputs |-> <<>>, probs |-> <<>>,
              session |-> NoSession]
NoPredictRet == [op |-> "none", k |-> 0, outputs |-> <<>>, probs |-> <<>>,
                 err |-> "", result |-> <<>>, session |-> NoSession,
                 labels |-> NoLabels]

\* ModelLoader.load_gesture_model: the exception raised ("" if none) and the
\* labels returned.
load_gesture_model(model_name) ==
    LET model_dir == ModelDir(model_name)
        labels_data == model_dir.json
    IN  IF ~model_dir.exists
        THEN [err |-> "FileNotFoundError", labels |-> NoLabels]
        ELSE IF model_dir.ext = ""
        THEN [err |-> "FileNotFoundError", labels |-> NoLabels]
        ELSE IF ~labels_data.exists
        THEN [err |-> "FileNotFoundError", labels |-> NoLabels]
        ELSE IF labels_data.kind = "list"
        THEN [err |-> "", labels |-> LabelList(labels_data.values)]
        ELSE IF labels_data.kind = "dict"
        THEN [err |-> "",
              labels |-> IF labels_data.hasLabels THEN labels_data.labels
                         ELSE LabelList(labels_data.values)]
        ELSE [err |-> "ValueError", labels |-> NoLabels]

\* line 36: ort.InferenceSession(str(model_path)) raises unless the file is
\* an ONNX model.
SessionError(model_name) ==
    IF ModelDir(model_name).ext = ".onnx" THEN "" ELSE "InvalidGraph"

\* GestureClassifier.__init__, with the default model loaded.
ClassifierInit ==
    /\ session = DefaultModel
    /\ labels = load_gesture_model(DefaultModel).labels
    /\ current_model = DefaultModel
    /\ lPc = "idle"
    /\ lLoc = NoLoad
    /\ lRet = NoLoadRet
    /\ pPc = "idle"
    /\ pLoc = NoPredict
    /\ pRet = NoPredictRet
    /\ tRet = NoPredictRet

\* The classifier left as constructed (other specifications).
ClassifierIdle == ClassifierInit

\* GestureClassifier.load_model, lines 32-36 up to the assignment: the
\* loader and the backend either raise, and the call ends, or give the
\* labels and the session that the next statements assign.
LoadCall(model_name) ==
    LET loaded == load_gesture_model(model_name)
        err == IF loaded.err # "" THEN loaded.err
               ELSE SessionError(model_name)
    IN  /\ lPc = "idle"
        /\ UNCHANGED <<session, labels, current_model, pPc, pLoc, pRet, tRet>>
        /\ IF err # ""
             THEN /\ lRet' = [op |-> "load_model", model_name |-> model_name,
                              err |-> err, same |-> Model' = Model]
                  /\ UNCHANGED <<lPc, lLoc>>
             ELSE /\ lPc' = "session"
                  /\ lLoc' = [model_name |-> model_name,
                              labels |-> loaded.labels, before |-> Model]
                  /\ UNCHANGED lRet

\* GestureClassifier.reload
Reload ==
    /\ current_model # ""
    /\ LoadCall(current_model)

\* line 36: self.session = ...
LoadAssignSession ==
    /\ lPc = "session"
    /\ session' = lLoc.model_name
    /\ lPc' = "labels"
    /\ UNCHANGED <<labels, current_model, lLoc, lRet, pPc, pLoc, pRet, tRet>>

\* line 38: self.labels = labels
LoadAssignLabels ==
    /\ lPc = "labels"
    /\ labels' = lLoc.labels
    /\ lPc' = "current"
    /\ UNCHANGED <<session, current_model, lLoc, lRet, pPc, pLoc, pRet, tRet>>

\* line 39: self.current_model = model_name
LoadAssignCurrent ==
    /\ lPc = "current"
    /\ current_model' = lLoc.model_name
    /\ lPc' = "log"
    /\ UNCHANGED <<session, labels, lLoc, lRet, pPc, pLoc, pRet, tRet>>

\* line 41: the log line takes len(labels), which raises TypeError for
\* labels that have no length; then load_model returns.
LoadLog ==
    /\ lPc = "log"
    /\ lRet' = [op |-> "load_model", model_name |-> lLoc.model_name,
                err |-> IF lLoc.labels.sized THEN "" ELSE "TypeError",
                same |-> Model = lLoc.before]
    /\ lPc' = "idle"
    /\ lLoc' = NoLoad
    /\ UNCHANGED <<session, labels, current_model, pPc, pLoc, pRet, tRet>>

RECURSIVE Sum(_)
Sum(x) == IF x = <<>> THEN 0 ELSE Head(x) + Sum(Tail(x))

\* GestureClassifier._softmax, for equal logits: every exp(x - max) is 1.
_softmax(x) == [i \in 1..Len(x) |-> Whole \div Len(x)]

\* lines 68-72: softmax unless the outputs sum to one already.
Probabilities(outputs) ==
    IF Sum(outputs) # Whole THEN _softmax(outputs) ELSE outputs

\* np.argmax: the first index of the largest value.
ArgMax(probs) ==
    CHOOSE i \in 1..Len(probs) :
        /\ \A j \in 1..Len(probs) : probs[j] <= probs[i]
        /\ \A j \in 1..(i - 1) : probs[j] < probs[i]

\* np.argsort(probs): the orders of the indices by ascending value.  The
\* default sort is not stable, so equal values come in either order.
ArgSorts(probs) ==
    {order \in [1..Len(probs) -> 1..Len(probs)] :
        /\ \A i, j \in 1..Len(probs) : i < j => order[i] # order[j]
        /\ \A i \in 1..(Len(probs) - 1) :
              probs[order[i]] <= probs[order[i + 1]]}

\* xs[-k:] (Python slice: -0 is 0, so k = 0 gives the whole list).
LastK(xs, k) ==
    IF k = 0 \/ k >= Len(xs) THEN xs
    ELSE SubSeq(xs, Len(xs) - k + 1, Len(xs))

\* xs[::-1]
Reversed(xs) == [i \in 1..Len(xs) |-> xs[Len(xs) + 1 - i]]

\* line 101: top_indices = np.argsort(probs)[-k:][::-1]
TopIndices(order, k) == Reversed(LastK(order, k))

\* The caller of predict or predict_top_k observes what it raised or
\* returned.
Returned(op, ret) ==
    /\ pRet' = IF op = "predict" THEN ret ELSE pRet
    /\ tRet' = IF op = "predict" THEN tRet ELSE ret

\* predict and predict_top_k up to self.session.run (lines 53-72 and
\* 83-98): the session in the field runs and gives outputs.
PredictRun(op, k, outputs) ==
    /\ pPc = "idle"
    /\ IF session = NoSession
         THEN /\ Returned(op, [NoPredictRet EXCEPT !.op = op, !.k = k,
                                   !.outputs = outputs,
                                   !.err = "RuntimeError"])
              /\ UNCHANGED <<pPc, pLoc>>
         ELSE /\ pPc' = "ran"
              /\ pLoc' = [op |-> op, k |-> k, outputs |-> outputs,
                          probs |-> Probabilities(outputs),
                          session |-> session]
              /\ UNCHANGED <<pRet, tRet>>
    /\ UNCHANGED <<session, labels, current_model, lPc, lLoc, lRet>>

\* lines 75-78 and 101-103: the indices are looked up in self.labels, which
\* raises TypeError when the field holds no list.
PredictReturn ==
    \E order \in ArgSorts(pLoc.probs) :
        LET probs == pLoc.probs
            indices == IF pLoc.op = "predict" THEN <<ArgMax(probs)>>
                       ELSE TopIndices(order, pLoc.k)
        IN  /\ pPc = "ran"
            /\ Returned(pLoc.op,
                  [op |-> pLoc.op, k |-> pLoc.k, outputs |-> pLoc.outputs,
                   probs |-> probs,
                   err |-> IF labels.sized THEN "" ELSE "TypeError",
                   result |-> IF labels.sized
                              THEN [i \in 1..Len(indices) |->
                                      <<labels.items[indices[i]],
                                        probs[indices[i]]>>]
                              ELSE <<>>,
                   session |-> pLoc.session,
                   labels |-> labels])
            /\ pPc' = "idle"
            /\ pLoc' = NoPredict
            /\ UNCHANGED <<session, labels, current_model, lPc, lLoc, lRet>>

(***************************************************************************)
(* The recognition pipeline of src/src/server.py: process_frame on the     *)
(* buffer, the classifier and the filter of app.state, update_config and   *)
(* switch_model.  The handlers are coroutines of one event loop and none   *)
(* awaits between its first and last statement, so each is one step.       *)
(***************************************************************************)

\* Bound of the pipeline model.
MaxMessages == 6     \* frames, config messages and model switches handled

NoLandmarks == <<>>                \* extract returned None

\* What landmark_extractor.extract gives for a frame: None, or an array of
\* a fixed size.
Extracted == {NoLandmarks, <<0>>}

\* Backend outputs explored in the pipeline: confidence 0.75 for the first
\* label, 0.75 for the second, 0.5 for the first.
FrameOutputs == {<<9, 3, 0>>, <<3, 9, 0>>, <<6, 6, 0>>}

\* Models the client switches to.
SwitchNames == {"asl_base", "asl_new", "gone", "null"}

VARIABLES
    pfRet,               \* the last frame message and what came of it
    nMessages            \* messages and requests handled so far

pipelineVars == <<pfRet, nMessages>>

NoFrameMessage == [frame |-> FALSE, decoded |-> FALSE, detected |-> FALSE,
               kind |-> "", sign |-> None, err |-> "",
               classified |-> FALSE, filtered |-> FALSE,
               len |-> 0, size |-> 0, same |-> TRUE]

PipelineInit ==
    /\ pfRet = NoFrameMessage
    /\ nMessages = 0

\* One more message or request is handled.
Handled ==
    /\ nMessages < MaxMessages
    /\ nMessages' = nMessages + 1

\* No frame received (other specifications).
PipelineIdle == PipelineInit

\* A probability of the classifier in the units of the filter.
Confidence(p) == (p * 10 * Unit) \div Whole

\* GestureClassifier.predict as one step: what the caller observes.
predict(outputs) ==
    LET probs == Probabilities(outputs)
        pred_idx == ArgMax(probs)
    IN  IF session = NoSession
        THEN [NoPredictRet EXCEPT !.op = "predict", !.outputs = outputs,
                                  !.err = "RuntimeError"]
        ELSE [op |-> "predict", k |-> 0, outputs |-> outputs,
              probs |-> probs,
              err |-> IF labels.sized THEN "" ELSE "TypeError",
              result |-> IF labels.sized
                         THEN <<<<labels.items[pred_idx], probs[pred_idx]>>>>
                         ELSE <<>>,
              session |-> session, labels |-> labels]

\* What the pipeline keeps between frames: the window, the filter history
\* and the last accepted prediction.
Kept == <<buffer, history, last_prediction, last_confidence>>

\* lines 217-218: a frame that cannot be decoded gives no event.
FrameUndecoded ==
    /\ pfRet' = [NoFrameMessage EXCEPT !.frame = TRUE]
    /\ UNCHANGED <<bufferVars, filterVars, classifierVars>>

\* lines 223-224
FrameNoDetection ==
    /\ UNCHANGED <<bufferVars, filterVars, classifierVars>>
    /\ pfRet' = [NoFrameMessage EXCEPT !.frame = TRUE, !.decoded = TRUE,
                                   !.kind = "no_detection",
                                   !.same = (Kept' = Kept)]

\* lines 227-254: add, get_sequence, and for a sequence predict and filter.
\* An exception of predict leaves process_frame, and no event is sent.
FrameDetection(landmarks, outputs) ==
    LET added == DequeAppend(buffer, landmarks, bufMaxlen)
        ret == [NoFrameMessage EXCEPT !.frame = TRUE, !.decoded = TRUE,
                                  !.detected = TRUE, !.len = Len(added),
                                  !.size = window_size]
        p == predict(outputs)
    IN  /\ gFixed => Len(gPushed) < MaxPushes
        /\ buffer' = added
        /\ feature_size' = IF feature_size = NoSize THEN Len(landmarks)
                           ELSE feature_size
        /\ gPushed' = IF gFixed THEN Append(gPushed, landmarks) ELSE gPushed
        /\ gBefore' = [buffer |-> added, window_size |-> window_size]
        /\ bRet' = IF NotFull(added, window_size)
                   THEN Ret("get_sequence", 0, TRUE, <<>>, "")
                   ELSE Ret("get_sequence", 0, FALSE, added, "")
        /\ UNCHANGED <<window_size, bufMaxlen, gFixed>>
        /\ UNCHANGED <<session, labels, current_model, lPc, lLoc, lRet,
                       pPc, pLoc, tRet>>
        /\ IF NotFull(added, window_size)
             THEN /\ pfRet' = [ret EXCEPT !.kind = "buffering"]
                  /\ UNCHANGED <<filterVars, pRet>>
             ELSE /\ pRet' = p
                  /\ IF p.err # ""
                       THEN /\ pfRet' = [ret EXCEPT !.classified = TRUE,
                                                    !.err = p.err]
                            /\ UNCHANGED filterVars
                       ELSE /\ FilterCall(p.result[1][1],
                                          Confidence(p.result[1][2]))
                            /\ pfRet' = [ret EXCEPT
                                 !.classified = TRUE, !.filtered = TRUE,
                                 !.sign = fRet'.out,
                                 !.kind = IF fRet'.out = None
                                          THEN "low_confidence"
                                          ELSE "recognition"]

\* process_frame
ProcessFrame(decoded, landmarks, outputs) ==
    /\ Handled
    /\ IF ~decoded THEN FrameUndecoded
       ELSE IF landmarks = NoLandmarks THEN FrameNoDetection
       ELSE FrameDetection(landmarks, outputs)

\* update_config; an exception of resize leaves the handler.
UpdateConfig(key, value) ==
    /\ Handled
    /\ UNCHANGED <<classifierVars, pfRet>>
    /\ CASE key = "confidence_threshold" ->
              /\ threshold' = value
              /\ UNCHANGED <<smoothing, history, last_prediction,
                             last_confidence, fRet, nCalls, gAccepted,
                             gStreak, bufferVars>>
         [] key = "smoothing_factor" ->
              /\ smoothing' = value
              /\ UNCHANGED <<threshold, history, last_prediction,
                             last_confidence, fRet, nCalls, gAccepted,
                             gStreak, bufferVars>>
         [] key = "temporal_window" ->
              /\ BufferResize(value)
              /\ UNCHANGED filterVars

\* switch_model for a gesture model: load_model from its first statement
\* to its last; an exception becomes the HTTP status 500.
SwitchModel(model_name) ==
    LET loaded == load_gesture_model(model_name)
        err == IF loaded.err # "" THEN loaded.err
               ELSE SessionError(model_name)
    IN  /\ Handled
        /\ IF err # ""
             THEN UNCHANGED <<session, labels, current_model>>
             ELSE /\ session' = model_name
                  /\ labels' = loaded.labels
                  /\ current_model' = model_name
        /\ lRet' = [op |-> "load_model", model_name |-> model_name,
                    err |-> IF err # "" THEN err
                            ELSE IF loaded.labels.sized THEN ""
                            ELSE "TypeError",
                    same |-> Model' = Model]
        /\ UNCHANGED <<lPc, lLoc, pPc, pLoc, pRet, tRet>>
        /\ UNCHANGED <<bufferVars, filterVars, pfRet>>

notBuffer ==
    <<smootherVars, filterVars, cameraVars, classifierVars, pipelineVars>>
notSmoother ==
    <<bufferVars, filterVars, cameraVars, classifierVars, pipelineVars>>
notFilter ==
    <<smootherVars, bufferVars, cameraVars, classifierVars, pipelineVars>>
notCamera ==
    <<smootherVars, bufferVars, filterVars, classifierVars, pipelineVars>>
notClassifier ==
    <<smootherVars, bufferVars, filterVars, cameraVars, pipelineVars>>
notPipeline == <<smootherVars, cameraVars>>

vars == <<smootherVars, bufferVars, filterVars, cameraVars, classifierVars,
          pipelineVars>>

\* The buffer alone: any calls, in any order.
InitBuffer ==
    /\ BufferInit
    /\ SmootherIdle /\ FilterIdle /\ CameraIdle
    /\ ClassifierIdle /\ PipelineIdle

NextBuffer ==
    \/ \E v \in Vectors : BufferAdd(v) /\ UNCHANGED notBuffer
    \/ BufferGetSequence /\ UNCHANGED notBuffer
    \/ BufferGetPartialSequence /\ UNCHANGED notBuffer
    \/ BufferClear /\ UNCHANGED notBuffer
    \/ \E n \in -1..MaxWindow : BufferResize(n) /\ UNCHANGED notBuffer

SpecBuffer == InitBuffer /\ [][NextBuffer]_vars

\* The smoother alone: updates at non-decreasing times, and resets.
InitSmoother ==
    /\ SmootherInit
    /\ BufferIdle /\ FilterIdle /\ CameraIdle
    /\ ClassifierIdle /\ PipelineIdle

NextSmoother ==
    \/ \E p \in Labels, c \in Confs, dt \in 0..MaxStep :
          SmootherUpdate(p, c, dt) /\ UNCHANGED notSmoother
    \/ SmootherReset /\ UNCHANGED notSmoother

SpecSmoother == InitSmoother /\ [][NextSmoother]_vars

\* The filter alone, threshold and smoothing factor fixed: calls and resets.
InitFilter ==
    /\ FilterInit
    /\ SmootherIdle /\ BufferIdle /\ CameraIdle
    /\ ClassifierIdle /\ PipelineIdle

NextFilter ==
    \/ \E p \in Labels, c \in FilterConfs :
          FilterCall(p, c) /\ UNCHANGED notFilter
    \/ FilterReset /\ UNCHANGED notFilter

SpecFilter == InitFilter /\ [][NextFilter]_vars

\* The camera and its owner: start and stop in any order while the capture
\* threads run; reads and callbacks take no time, nobody calls get_frame and
\* the callbacks leave the frame as it is.
InitCamera ==
    /\ CameraIdle
    /\ SmootherIdle /\ BufferIdle /\ FilterIdle
    /\ ClassifierIdle /\ PipelineIdle

NextCamera ==
    \/ \E cb \in Callbacks, opens \in BOOLEAN :
          Start(cb, opens, MaxEvents) /\ UNCHANGED notCamera
    \/ StopSignal /\ UNCHANGED notCamera
    \/ StopFinish /\ UNCHANGED notCamera
    \/ \E t \in Threads : LoopTest(t) /\ UNCHANGED notCamera
    \/ \E t \in Threads, ok \in BOOLEAN :
          DeviceRead(t, 0, ok, MaxEvents) /\ UNCHANGED notCamera
    \/ \E t \in Threads : BackoffSleep(t) /\ UNCHANGED notCamera
    \/ \E t \in Threads : StoreAcquire(t) /\ UNCHANGED notCamera
    \/ \E t \in Threads : StoreRelease(t) /\ UNCHANGED notCamera
    \/ \E t \in Threads : CallbackReturn(t, 0) /\ UNCHANGED notCamera
    \/ \E t \in Threads : CallbackRaise(t) /\ UNCHANGED notCamera
    \/ \E t \in Threads : LogError(t) /\ UNCHANGED notCamera
    \/ \E t \in Threads : Pace(t) /\ UNCHANGED notCamera
    \/ \E t \in Threads : CadenceSleep(t) /\ UNCHANGED notCamera

SpecCamera == InitCamera /\ [][NextCamera]_vars

\* The frame slot and its users: a source that is started and not stopped,
\* its capture thread and callback, and a reader that calls get_frame at
\* any time; reads and callbacks take no time.
InitSlot ==
    /\ CameraIdle
    /\ SmootherIdle /\ BufferIdle /\ FilterIdle
    /\ ClassifierIdle /\ PipelineIdle

NextSlot ==
    \/ \E cb \in Callbacks, opens \in BOOLEAN :
          Start(cb, opens, MaxEvents) /\ UNCHANGED notCamera
    \/ ReaderAcquire /\ UNCHANGED notCamera
    \/ ReaderReturnNone /\ UNCHANGED notCamera
    \/ ReaderCopyLo /\ UNCHANGED notCamera
    \/ ReaderCopyHi /\ UNCHANGED notCamera
    \/ \E t \in Threads : LoopTest(t) /\ UNCHANGED notCamera
    \/ \E t \in Threads, ok \in BOOLEAN :
          DeviceRead(t, 0, ok, MaxEvents) /\ UNCHANGED notCamera
    \/ \E t \in Threads : BackoffSleep(t) /\ UNCHANGED notCamera
    \/ \E t \in Threads : StoreAcquire(t) /\ UNCHANGED notCamera
    \/ \E t \in Threads : StoreRelease(t) /\ UNCHANGED notCamera
    \/ \E t \in Threads : CallbackDraw(t) /\ UNCHANGED notCamera
    \/ \E t \in Threads : CallbackReturn(t, 0) /\ UNCHANGED notCamera
    \/ \E t \in Threads : CallbackRaise(t) /\ UNCHANGED notCamera
    \/ \E t \in Threads : LogError(t) /\ UNCHANGED notCamera
    \/ \E t \in Threads : Pace(t) /\ UNCHANGED notCamera
    \/ \E t \in Threads : CadenceSleep(t) /\ UNCHANGED notCamera

SpecSlot == InitSlot /\ [][NextSlot]_vars

\* One capture loop under any config, started without a callback and never
\* stopped; a device read that gives a frame takes one of Latencies, one
\* that fails returns at once.
InitRate ==
    /\ CameraInit
    /\ SmootherIdle /\ BufferIdle /\ FilterIdle
    /\ ClassifierIdle /\ PipelineIdle

NextRate ==
    \/ Start(None, TRUE, MaxCycles) /\ UNCHANGED notCamera
    \/ \E t \in Threads : LoopTest(t) /\ UNCHANGED notCamera
    \/ \E t \in Threads, d \in Latencies :
          DeviceRead(t, d, TRUE, MaxCycles) /\ UNCHANGED notCamera
    \/ \E t \in Threads :
          DeviceRead(t, 0, FALSE, MaxCycles) /\ UNCHANGED notCamera
    \/ \E t \in Threads : BackoffSleep(t) /\ UNCHANGED notCamera
    \/ \E t \in Threads : StoreAcquire(t) /\ UNCHANGED notCamera
    \/ \E t \in Threads : StoreRelease(t) /\ UNCHANGED notCamera
    \/ \E t \in Threads : Pace(t) /\ UNCHANGED notCamera
    \/ \E t \in Threads : CadenceSleep(t) /\ UNCHANGED notCamera

SpecRate == InitRate /\ [][NextRate]_vars

\* The predictor alone, on every backend output and every k up to MaxK.
InitTopK ==
    /\ ClassifierInit
    /\ SmootherIdle /\ BufferIdle /\ FilterIdle /\ CameraIdle /\ PipelineIdle

NextTopK ==
    \/ \E outputs \in BackendOutputs :
          PredictRun("predict", 0, outputs) /\ UNCHANGED notClassifier
    \/ \E k \in 0..MaxK, outputs \in BackendOutputs :
          PredictRun("predict_top_k", k, outputs) /\ UNCHANGED notClassifier
    \/ PredictReturn /\ UNCHANGED notClassifier

SpecTopK == InitTopK /\ [][NextTopK]_vars

\* Loads and predictions interleaved.
InitClassifier == InitTopK

NextClassifier ==
    \/ \E model_name \in ModelNames :
          LoadCall(model_name) /\ UNCHANGED notClassifier
    \/ Reload /\ UNCHANGED notClassifier
    \/ LoadAssignSession /\ UNCHANGED notClassifier
    \/ LoadAssignLabels /\ UNCHANGED notClassifier
    \/ LoadAssignCurrent /\ UNCHANGED notClassifier
    \/ LoadLog /\ UNCHANGED notClassifier
    \/ PredictRun("predict", 0, <<6, 4, 2>>) /\ UNCHANGED notClassifier
    \/ PredictRun("predict_top_k", 2, <<2, 5, 5>>) /\ UNCHANGED notClassifier
    \/ PredictReturn /\ UNCHANGED notClassifier

SpecClassifier == InitClassifier /\ [][NextClassifier]_vars

\* The server: frames, config messages and model switches in any order.
InitPipeline ==
    /\ PipelineInit
    /\ BufferIdle /\ FilterIdle /\ ClassifierIdle
    /\ SmootherIdle /\ CameraIdle

NextPipeline ==
    \/ \E landmarks \in Extracted, outputs \in FrameOutputs :
          ProcessFrame(TRUE, landmarks, outputs) /\ UNCHANGED notPipeline
    \/ ProcessFrame(FALSE, NoLandmarks, <<>>) /\ UNCHANGED notPipeline
    \/ \E value \in -1..MaxWindow :
          UpdateConfig("temporal_window", value) /\ UNCHANGED notPipeline
    \/ \E value \in Thresholds :
          UpdateConfig("confidence_threshold", value)
          /\ UNCHANGED notPipeline
    \/ \E value \in Smoothings :
          UpdateConfig("smoothing_factor", value) /\ UNCHANGED notPipeline
    \/ \E model_name \in SwitchNames :
          SwitchModel(model_name) /\ UNCHANGED notPipeline

SpecPipeline == InitPipeline /\ [][NextPipeline]_vars

(***************************************************************************)
(*                       ConfidenceFilter: claims                          *)
(***************************************************************************)

\* C1, as claimed: a call filter(label, confidence) with
\* confidence < threshold returns None, whatever the label, the history and
\* the last accepted label and confidence are.
C1_BelowThresholdRejected ==
    (fRet.called /\ fRet.conf < threshold) => fRet.out = None

\* C1, amended: a call with confidence < threshold returns None whenever its
\* label is not the last accepted label (the last label filter returned since
\* construction or reset); for the last accepted label the threshold applies
\* to the smoothed confidence, and the call returns None whenever that is
\* below threshold.
C1_BelowThresholdNewLabelRejected ==
    /\ (fRet.called /\ fRet.conf < threshold
            /\ fRet.label # fRet.prevAccepted) => fRet.out = None
    /\ (fRet.called /\ fRet.smoothed < threshold) => fRet.out = None

\* A label other than the accepted one arrives with a confidence below the
\* threshold, after an acceptance with a confidence above it.
C1_Witness ==
    /\ fRet.called
    /\ fRet.prevAccepted \notin {None, fRet.label}
    /\ fRet.conf < threshold
    /\ fRet.conf > 0
    /\ last_confidence > threshold
    /\ smoothing = 3
    /\ fRet.out = None

\* C12: whatever the history and the last accepted prediction, when filter
\* is called three or more times in a row with the same label, a confidence
\* above the threshold and a smoothed confidence not below it, the third of
\* these calls and every later one returns the label.
C12_ThirdOfStreakAccepted ==
    (fRet.called /\ gStreak.len >= 3) =>
        /\ gStreak.label = fRet.label
        /\ fRet.out = fRet.label

\* The third call of such a streak, made on a history whose two oldest
\* entries carry the other label, with the default smoothing factor.
C12_Witness ==
    /\ fRet.called
    /\ gStreak.len = 3
    /\ fRet.out = fRet.label
    /\ Len(history) = HistoryMaxlen
    /\ history[1][1] # fRet.label
    /\ history[2][1] # fRet.label
    /\ smoothing = 3

\* C25, as claimed: when the filter call before this one carried another
\* label, the smoothed confidence appended to history and compared with the
\* threshold is the raw confidence; a smoothed confidence other than the raw
\* one arises only when the call before carried the same label and was
\* accepted.
C25_SwitchResetsSmoothing ==
    [][ (nCalls' = nCalls + 1 /\ fRet.called) =>
          /\ history'[Len(history')] = <<fRet'.label, fRet'.smoothed>>
          /\ fRet.label # fRet'.label => fRet'.smoothed = fRet'.conf
          /\ fRet'.smoothed # fRet'.conf =>
                /\ fRet.label = fRet'.label
                /\ fRet.out = fRet.label ]_vars

\* C25, amended: the smoothed confidence appended to history and compared
\* with the threshold is the raw confidence exactly when the label is not
\* the last accepted label (the last label filter returned since
\* construction or reset); for the last accepted label it is the blend
\* smoothing * c + (1 - smoothing) * last accepted smoothed confidence,
\* whatever labels the calls in between carried.
C25_BlendWithLastAccepted ==
    [][ nCalls' = nCalls + 1 =>
          /\ history'[Len(history')] = <<fRet'.label, fRet'.smoothed>>
          /\ fRet'.smoothed =
                IF fRet'.label = gAccepted
                THEN (smoothing * fRet'.conf
                        + (10 - smoothing) * last_confidence) \div 10
                ELSE fRet'.conf
          /\ fRet'.out # None => fRet'.smoothed >= threshold
          /\ last_confidence' = IF fRet'.out # None THEN fRet'.smoothed
                                ELSE last_confidence ]_vars

\* A call whose label was accepted earlier and whose confidence is blended,
\* although the call before it carried the other label.
C25_Witness ==
    /\ fRet.called
    /\ fRet.label = fRet.prevAccepted
    /\ fRet.smoothed # fRet.conf
    /\ smoothing = 3
    /\ Len(history) >= 2
    /\ history[Len(history) - 1][1] # fRet.label

(***************************************************************************)
(*                        TemporalBuffer: claims                           *)
(***************************************************************************)

\* C7: after any sequence of add, clear and resize calls the number of
\* buffered vectors never exceeds the current window_size.
C7_CountWithinWindow == Len(buffer) <= window_size

\* C8: in a buffer of fixed window_size N >= 1 that started empty,
\* get_sequence returns None while fewer than N vectors have been added and
\* otherwise exactly the N most recently added vectors, oldest first;
\* get_sequence and get_partial_sequence leave the buffer unchanged.
C8_FullWindowLastN ==
    /\ (gFixed /\ bRet.op = "get_sequence") =>
          IF Len(gPushed) < window_size
          THEN bRet.none
          ELSE /\ ~bRet.none
               /\ bRet.seq = SubSeq(gPushed, Len(gPushed) - window_size + 1,
                                    Len(gPushed))
    /\ bRet.op \in {"get_sequence", "get_partial_sequence"} =>
          /\ buffer = gBefore.buffer
          /\ window_size = gBefore.window_size

\* A full window returned after more than N adds, whose first two vectors
\* differ.
C8_Witness ==
    /\ gFixed
    /\ bRet.op = "get_sequence"
    /\ ~bRet.none
    /\ window_size >= 2
    /\ Len(gPushed) > window_size
    /\ bRet.seq[1] # bRet.seq[2]

\* C9: once the first add has fixed feature_size, an add of a vector of another
\* length raises FeatureSizeMismatch and leaves the buffer as it was, so every
\* vector in the buffer and in any returned window has length feature_size.
C9_MismatchRejected ==
    /\ \A i \in 1..Len(buffer) : Len(buffer[i]) = feature_size
    /\ ~bRet.none => \A i \in 1..Len(bRet.seq) : Len(bRet.seq[i]) = feature_size
    /\ (bRet.op = "add" /\ bRet.arg # feature_size) =>
          /\ bRet.err = "FeatureSizeMismatch"
          /\ buffer = gBefore.buffer

\* C10: resize(new_size) with new_size >= 0 sets the capacity to new_size and
\* leaves exactly the most recent min(new_size, old_count) vectors, in their
\* original order.
C10_ResizeKeepsMostRecent ==
    (bRet.op = "resize" /\ bRet.arg >= 0) =>
        LET old == gBefore.buffer
            k == IF bRet.arg < Len(old) THEN bRet.arg ELSE Len(old)
        IN  /\ bRet.err = ""
            /\ window_size = bRet.arg
            /\ bufMaxlen = bRet.arg
            /\ buffer = SubSeq(old, Len(old) - k + 1, Len(old))

\* A resize that discards the oldest of several distinct vectors.
C10_Witness ==
    /\ bRet.op = "resize"
    /\ bRet.arg > 0
    /\ bRet.arg < Len(gBefore.buffer)
    /\ gBefore.buffer[1] # gBefore.buffer[Len(gBefore.buffer)]

\* C11: get_partial_sequence returns None iff the buffer is empty; with
\* c >= 1 buffered vectors and window_size N it returns exactly N vectors,
\* N - c copies of the oldest buffered vector followed by the c buffered
\* vectors in order, which is the get_sequence window when c = N.
C11_PaddedWindow ==
    bRet.op = "get_partial_sequence" =>
        LET c == Len(gBefore.buffer)
            N == gBefore.window_size
        IN  /\ bRet.none <=> c = 0
            /\ c >= 1 =>
                  /\ Len(bRet.seq) = N
                  /\ \A i \in 1..(N - c) : bRet.seq[i] = gBefore.buffer[1]
                  /\ \A i \in 1..c :
                        i + N - c \in 1..Len(bRet.seq)
                        /\ bRet.seq[i + N - c] = gBefore.buffer[i]
                  /\ c = N => bRet.seq = gBefore.buffer

\* C27: after any resize call, one that raises included, window_size is the
\* capacity of the deque, the buffered vectors are a suffix, in order, of
\* those held before the call, and is_ready tells whether the deque holds as
\* many vectors as it can.
C27_ResizeNeverCorrupts ==
    bRet.op = "resize" =>
        /\ window_size = bufMaxlen
        /\ \E k \in 0..Len(gBefore.buffer) :
              buffer = SubSeq(gBefore.buffer, k + 1, Len(gBefore.buffer))
        /\ is_ready <=> Len(buffer) = bufMaxlen

(***************************************************************************)
(*                        GestureSmoother: claims                          *)
(***************************************************************************)

\* C2: every event update returns for a label L at time t belongs to a run
\* of consecutive updates carrying L that started at a time s with
\* t - s >= min_duration; the update that first observes a new label (the
\* first of its run) never returns an event, even when min_duration is 0.
C2_EmitOnlyAfterHeld ==
    sOut # NoEvent =>
        /\ sOut[1] = gCall.label
        /\ gCall.cont
        /\ gCall.held >= min_duration

\* An event returned exactly when the hold reaches a positive min_duration.
C2_Witness ==
    /\ sOut # NoEvent
    /\ min_duration > 0
    /\ gCall.held = min_duration

\* C3: with non-decreasing call times, any two returned events (same or
\* different labels) are at least cooldown apart.
C3_EmitsCooldownApart ==
    \A i, j \in 1..Len(gEmits) :
        i < j => gEmits[j].time - gEmits[i].time >= cooldown

\* Two events returned under a positive cooldown.
C3_Witness ==
    /\ cooldown > 0
    /\ Len(gEmits) >= 2

\* C4: with no reset in between, an event for the label of the previous event
\* is returned only if an update carrying a different label came between the
\* two events.
C4_NoRepeatWithoutOtherLabel ==
    (sOut # NoEvent /\ gCall.prevEmit = gCall.label /\ ~gCall.resetSince)
        => gCall.diffSince

\* The emitted label is still held, uninterrupted, after min_duration and a
\* positive cooldown have both passed since its event: update returns None.
C4_Witness ==
    /\ sOut = NoEvent
    /\ cooldown > 0
    /\ gCall.cont
    /\ gCall.prevEmit = gCall.label
    /\ ~gCall.resetSince
    /\ ~gCall.diffSince
    /\ gCall.gap >= cooldown
    /\ gCall.held >= min_duration

\* C5: on a freshly constructed smoother fed one label on every update, an
\* update returns an event exactly when it is the first update continuing the
\* episode at which the label has been held for >= min_duration; so there is
\* no event before that update and exactly one from then on.
C5_SingleLabelEmitsOnce ==
    (~gSince.everReset /\ Cardinality(gFed) = 1) =>
        /\ (sOut # NoEvent) <=> (gRun.due = 1)
        /\ Len(gEmits) = IF gRun.due = 0 THEN 0 ELSE 1

\* One label held on, well past min_duration and the cooldown after its
\* single event.
C5_Witness ==
    /\ ~gSince.everReset
    /\ Cardinality(gFed) = 1
    /\ min_duration > 0
    /\ cooldown > 0
    /\ gRun.due = 2
    /\ Len(gEmits) = 1
    /\ gCall.gap >= cooldown

\* C6, as claimed: once L was emitted and an update carrying a different
\* label came after that event, an update at which L has been fed
\* continuously for >= min_duration, with >= cooldown elapsed since the last
\* event, returns an event for L.
C6_AnyOtherLabelUnlocks ==
    ( /\ gCall.prevEmit = gCall.label
      /\ gCall.diffSince
      /\ gCall.cont
      /\ gCall.held >= min_duration
      /\ gCall.gap >= cooldown )
        => sOut # NoEvent

\* C6, amended: an update that continues an episode of L held for
\* >= min_duration, with >= cooldown elapsed since the last event, returns an
\* event for L exactly when the last event returned since the last reset (if
\* any) carries another label: a different label M lets L be emitted again
\* only once M itself has been emitted.
C6_ReEmitAfterOtherEmitted ==
    ( /\ gCall.cont
      /\ gCall.held >= min_duration
      /\ (gCall.gap = -1 \/ gCall.gap >= cooldown) )
        => ( (sOut # NoEvent) <=>
                (gCall.prevEmit # gCall.label \/ gCall.resetSince) )

\* L, then M, then L again emitted, with no reset.
C6_Witness ==
    /\ sOut # NoEvent
    /\ ~gCall.resetSince
    /\ gCall.prevEmit \notin {None, gCall.label}
    /\ Len(gEmits) >= 3
    /\ gEmits[Len(gEmits) - 2].label = gCall.label

\* C13: right after reset, current_gesture, gesture_start_time,
\* last_output_time and output_history have the values __init__ gives them,
\* so the smoother then behaves like a new one: an update that continues a
\* run held for min_duration, with no event since the reset, returns an
\* event whatever was emitted before the reset.
C13_ResetLikeFresh ==
    /\ (gSince.everReset /\ gRun = NoRun) =>
          /\ current_gesture = None
          /\ gesture_start_time = 0
          /\ last_output_time = 0
          /\ output_history = <<>>
    /\ (gCall.resetSince /\ gCall.cont /\ gCall.held >= min_duration) =>
          sOut # NoEvent

(***************************************************************************)
(*                         CameraManager: claims                           *)
(***************************************************************************)

\* C14: get_frame returns None while the slot is empty and afterwards a copy
\* of the frame in the slot as it was captured; while the reader copies, the
\* frame in the slot is not being changed, whatever the capture thread and
\* the callback are doing.
C14_ReaderSeesCapturedFrame ==
    /\ (rRet.called /\ ~rRet.none) =>
          rRet.px = <<rRet.frame, rRet.frame>>
    /\ rPc = "copying" =>
          pixels[_last_frame] = <<_last_frame, _last_frame>>


\* C15: the lock is held only by a reader inside the read-copy of get_frame
\* or by a capture thread at its slot replace.  Whenever a capture thread is
\* in a device read, the callback, the back-off sleep or the cadence sleep
\* it does not hold the lock, and the lock is free unless a reader is inside
\* its read-copy: get_frame never waits for device I/O or for the callback.
C15_LockOnlyAroundSlot ==
    /\ _lock = Reader <=> rPc \in {"locked", "copying"}
    /\ \A t \in Threads : _lock = t <=> acq[t].pc = "locked"
    /\ \A t \in Threads :
          acq[t].pc \in {"read", "callback", "except", "backoff", "sleep"} =>
              /\ _lock \in {Free, Reader}
              /\ rPc = "idle" => _lock = Free

\* A reader, not on its first call, has taken the lock and is copying while
\* the capture thread is inside the callback on the frame in the slot.
C15_Witness ==
    /\ \E t \in Threads : acq[t].pc = "callback" /\ _last_frame = acq[t].frame
    /\ rPc = "copying"
    /\ _lock = Reader
    /\ rRet.called


\* C16: a capture thread leaves _capture_loop only in a state where the
\* running flag is cleared, and only stop clears it.  A failed device read
\* leaves the slot and the frames as they were and leads, without the
\* callback, to the back-off sleep of a tenth of a second and from there to
\* the loop test; an exception raised by the callback is caught and leads to
\* the rest of the cycle.  Neither ends the loop, however many came before.
C16_LoopEndsOnlyWhenStopped ==
    [][ /\ (is_running /\ ~is_running') => (mPc = "idle" /\ mPc' = "joining")
        /\ \A t \in Threads :
              /\ (acq[t].pc \notin {"done", "crashed"}
                    /\ acq'[t].pc \in {"done", "crashed"}) => ~is_running
              /\ (acq[t].pc = "read" /\ acq'[t].pc \notin {"read", "store"}
                    /\ cap # None) =>
                    /\ acq'[t].pc = "backoff"
                    /\ _last_frame' = _last_frame
                    /\ pixels' = pixels
              /\ (acq[t].pc = "backoff" /\ acq'[t].pc # "backoff") =>
                    /\ acq'[t].pc = "test"
                    /\ clock' = clock + Second \div 10
                    /\ _last_frame' = _last_frame
              /\ (acq[t].pc = "callback" /\ acq'[t].pc # "callback") =>
                    acq'[t].pc \in {"fps", "except"}
              /\ (acq[t].pc = "except" /\ acq'[t].pc # "except") =>
                    acq'[t].pc = "fps"
      ]_vars

\* The only thread spawned has had two failed reads in a row, then a frame,
\* and its callback has raised; the source is running.
C16_Witness ==
    /\ is_running
    /\ NextPlace = 2
    /\ acq[1].pc = "except"
    /\ Len(pixels) = 1
    /\ nEvents >= 4


\* C17: stop clears the running flag before it waits, its wait ends whether
\* or not the thread has ended, and when it has returned the source is not
\* running and holds no device handle, none being left open.  A capture
\* thread that stop has signalled finishes at most the cycle it is in: a
\* thread begins a cycle only while it is the thread of a source that nobody
\* has stopped since it was spawned.
C17_StopReleasesAndLoopExits ==
    /\ [](mPc = "joining" => ~is_running)
    /\ [](mRet.op = "stop" =>
             /\ ~is_running
             /\ cap = None
             /\ nOpen = 0
             /\ _thread = NoThread)
    /\ [][ \A t \in Threads :
              (acq[t].pc = "test" /\ acq'[t].pc = "read") =>
                  (t = _thread /\ mPc = "idle") ]_vars


\* C18: a call of start that finds the source running returns without an
\* error and changes nothing: no thread is spawned, no device is opened, and
\* cap, the callback, the frame slot, the thread and the running flag are
\* what they were.
C18_StartWhileRunningNoOp ==
    (mRet.op = "start" /\ mRet.wasRunning) =>
        /\ mRet.same
        /\ mRet.err = ""

\* start has just returned from a running source whose only thread is in
\* the middle of a cycle.
C18_Witness ==
    /\ mRet.op = "start"
    /\ mRet.wasRunning
    /\ is_running
    /\ NextPlace = 2
    /\ _thread = 1
    /\ acq[1].pc = "callback"


\* C19: with adaptive sampling on (min_fps <= target_fps), the interval of
\* a capture loop starts at 1 / target_fps and is never outside
\* [1 / target_fps, 1 / min_fps].  It changes only at the end of a cycle,
\* by the rate just measured: times 1.1, at most 1 / min_fps, when the rate
\* is below min_fps; times 0.95, at least 1 / target_fps, when the rate is
\* above 0.95 * target_fps; not at all otherwise.
C19_IntervalBoundedAndStepped ==
    /\ []((adaptive_sampling /\ min_fps <= target_fps) =>
             \A t \in Threads :
                 acq[t].pc # "none" =>
                     /\ acq[t].frame_interval >= Floor
                     /\ acq[t].frame_interval <= Ceiling)
    /\ [][ (adaptive_sampling /\ min_fps <= target_fps) =>
             \A t \in Threads :
                 LET before == acq[t].frame_interval
                     after == acq'[t].frame_interval
                     rate == current_fps'
                 IN  IF acq[t].pc = "none"
                     THEN acq'[t].pc # "none" => after = Floor
                     ELSE IF acq[t].pc = "fps" /\ acq'[t].pc = "sleep"
                     THEN /\ rate < min_fps =>
                               after = Min2((before * 11) \div 10, Ceiling)
                          /\ 100 * rate > 95 * target_fps =>
                               after = Max2((before * 19) \div 20, Floor)
                          /\ (rate >= min_fps
                                /\ 100 * rate <= 95 * target_fps) =>
                               after = before
                     ELSE after = before ]_vars

\* A loop whose interval has gone up, stayed and come down again: it is
\* above the floor, the last cycle has shortened it, and the rate measured
\* is above 0.95 * target_fps.
C19_Witness ==
    /\ adaptive_sampling
    /\ min_fps <= target_fps
    /\ \E t \in Threads :
          /\ acq[t].pc = "sleep"
          /\ acq[t].frame_interval > Floor
          /\ acq[t].frame_interval < Ceiling
          /\ 100 * current_fps > 95 * target_fps



\* C20, as claimed: in every cycle that measures a rate below min_fps the
\* interval does not decrease, increases when it is below 1 / min_fps,
\* coming one cycle nearer to 1 / min_fps, and stays at 1 / min_fps when it
\* is there; nothing else changes it between two cycles.  So a run of such
\* cycles raises the interval to 1 / min_fps after finitely many of them and
\* keeps it there.
C20_LowRateRaisesToCeiling ==
    [][ \A t \in Threads :
            LET before == acq[t].frame_interval
                after == acq'[t].frame_interval
                RECURSIVE CyclesToCeiling(_)
                CyclesToCeiling(x) ==
                    IF x >= Ceiling THEN 0
                    ELSE 1 + CyclesToCeiling(Min2((x * 11) \div 10, Ceiling))
            IN  IF acq[t].pc = "fps" /\ acq'[t].pc = "sleep"
                THEN current_fps' < min_fps =>
                        /\ after >= before
                        /\ before < Ceiling =>
                              /\ after > before
                              /\ CyclesToCeiling(after) =
                                     CyclesToCeiling(before) - 1
                        /\ before = Ceiling => after = Ceiling
                ELSE acq[t].pc # "none" => after = before ]_vars

\* C20, amended: with adaptive sampling on and min_fps <= target_fps, in
\* every cycle that measures a rate below min_fps the interval does not
\* decrease and does not pass 1 / min_fps; it increases when it is below
\* 1 / min_fps, coming one cycle nearer to it, and is never further from it
\* than the start value 1 / target_fps is; it stays at 1 / min_fps when it
\* is there; nothing else changes it between two cycles.
C20_LowRateRaisesWhenAdaptive ==
    [][ (adaptive_sampling /\ min_fps <= target_fps) =>
          \A t \in Threads :
              LET before == acq[t].frame_interval
                  after == acq'[t].frame_interval
                  RECURSIVE CyclesToCeiling(_)
                  CyclesToCeiling(x) ==
                      IF x >= Ceiling THEN 0
                      ELSE 1 + CyclesToCeiling(Min2((x * 11) \div 10, Ceiling))
              IN  IF acq[t].pc = "fps" /\ acq'[t].pc = "sleep"
                  THEN current_fps' < min_fps =>
                          /\ after >= before
                          /\ after <= Ceiling
                          /\ CyclesToCeiling(before) <= CyclesToCeiling(Floor)
                          /\ before < Ceiling =>
                                /\ after > before
                                /\ CyclesToCeiling(after) =
                                       CyclesToCeiling(before) - 1
                          /\ before = Ceiling => after = Ceiling
                  ELSE acq[t].pc # "none" => after = before ]_vars

\* Six frames have been captured and the interval has come from
\* 1 / target_fps to 1 / min_fps, which takes five cycles of low rate; the
\* cycle just finished measured a low rate too.
C20_Witness ==
    /\ adaptive_sampling
    /\ min_fps < target_fps
    /\ Len(pixels) = 6
    /\ current_fps < min_fps
    /\ \E t \in Threads :
          /\ acq[t].pc = "sleep"
          /\ acq[t].frame_interval = Ceiling


\* C28: whatever start and stop calls are made, at most one thread is inside
\* _capture_loop at any time, and a thread that reads from the device reads
\* the handle opened by the start that spawned it: self.cap is then that
\* start's handle, which is so exactly while the thread is self._thread.
C28_OneLoopOwnHandle ==
    /\ [](Cardinality({t \in Threads :
                          acq[t].pc \notin {"none", "done", "crashed"}}) <= 1)
    /\ [][ \A t \in Threads :
              (acq[t].pc = "read" /\ acq'[t].pc \in {"store", "backoff"}) =>
                  t = _thread ]_vars


\* C30, as claimed: with adaptive sampling on and min_fps <= 0.95 *
\* target_fps, a cycle that begins with the interval at 1 / min_fps (every
\* cycle lasts at least its interval, by the sleep that ends it) measures a
\* rate that is not above 0.95 * target_fps and leaves the interval at
\* 1 / min_fps.
C30_CeilingIsAbsorbing ==
    [][ (adaptive_sampling /\ 100 * min_fps <= 95 * target_fps) =>
          \A t \in Threads :
              /\ (acq[t].pc = "sleep" /\ acq'[t].pc = "test") =>
                    clock' - acq[t].start_time >= acq[t].frame_interval
              /\ (acq[t].pc = "fps" /\ acq'[t].pc = "sleep"
                    /\ acq[t].frame_interval = Ceiling) =>
                    /\ 100 * current_fps' <= 95 * target_fps
                    /\ acq'[t].frame_interval = Ceiling ]_vars

\* C30, amended: with adaptive sampling on and min_fps <= 0.95 * target_fps,
\* every cycle lasts at least its interval, and a cycle that begins with the
\* interval at 1 / min_fps and finds the time stamps of the last second at
\* least 1 / min_fps apart measures a rate of at most min_fps, which is not
\* above 0.95 * target_fps, and leaves the interval at 1 / min_fps.
C30_CeilingHoldsWhenStampsApart ==
    [][ (adaptive_sampling /\ 100 * min_fps <= 95 * target_fps) =>
          \A t \in Threads :
              /\ (acq[t].pc = "sleep" /\ acq'[t].pc = "test") =>
                    clock' - acq[t].start_time >= acq[t].frame_interval
              /\ (acq[t].pc = "fps" /\ acq'[t].pc = "sleep"
                    /\ acq[t].frame_interval = Ceiling
                    /\ \A i \in 1..(Len(_frame_times') - 1) :
                          _frame_times'[i + 1] - _frame_times'[i] >= Ceiling)
                    =>
                    /\ current_fps' <= min_fps
                    /\ 100 * current_fps' <= 95 * target_fps
                    /\ acq'[t].frame_interval = Ceiling ]_vars

\* The interval has reached 1 / min_fps, and the cycle just finished has
\* found two time stamps in the last second, 1 / min_fps apart: the rate
\* measured is min_fps and the interval is where it was.
C30_Witness ==
    /\ adaptive_sampling
    /\ 100 * min_fps <= 95 * target_fps
    /\ current_fps = min_fps
    /\ Len(_frame_times) = 2
    /\ _frame_times[2] - _frame_times[1] = Ceiling
    /\ Len(pixels) >= 6
    /\ \E t \in Threads :
          /\ acq[t].pc = "sleep"
          /\ acq[t].frame_interval = Ceiling


(***************************************************************************)
(*                      GestureClassifier: claims                          *)
(***************************************************************************)

\* C21: with load_model or reload running beside predict and
\* predict_top_k, every prediction that returns has looked its indices up in
\* the label list of the model whose session it ran.
C21_PredictionFromOneModel ==
    /\ (pRet.op = "predict" /\ pRet.err = "") =>
            pRet.labels = load_gesture_model(pRet.session).labels
    /\ (tRet.op = "predict_top_k" /\ tRet.err = "") =>
            tRet.labels = load_gesture_model(tRet.session).labels

\* C22: predict_top_k(window, k) returns the first min(k, n) entries of the
\* (label, probability) list ordered by descending probability, equal
\* probabilities by ascending index; so at most k entries.
C22_TopKIsSortedPrefix ==
    (tRet.op = "predict_top_k" /\ tRet.err = "") =>
        LET probs == tRet.probs
            n == Len(probs)
            Ahead(i) == Cardinality({j \in 1..n :
                            \/ probs[j] > probs[i]
                            \/ probs[j] = probs[i] /\ j < i})
            sorted == [r \in 1..n |-> CHOOSE i \in 1..n : Ahead(i) = r - 1]
            m == IF tRet.k < n THEN tRet.k ELSE n
        IN  /\ Len(tRet.result) <= tRet.k
            /\ tRet.result = [r \in 1..m |->
                                <<tRet.labels.items[sorted[r]],
                                  probs[sorted[r]]>>]

\* C26: a load_model call that raises leaves session, labels and
\* current_model as they were when it was called.
C26_FailedLoadChangesNothing ==
    (lRet.op = "load_model" /\ lRet.err # "") => lRet.same

\* C29: on the same backend output and labels, for k >= 1, predict returns
\* the label and probability of the first entry of predict_top_k.
C29_PredictIsFirstOfTopK ==
    ( /\ pRet.op = "predict" /\ pRet.err = ""
      /\ tRet.op = "predict_top_k" /\ tRet.err = ""
      /\ tRet.k >= 1
      /\ tRet.outputs = pRet.outputs
      /\ tRet.labels = pRet.labels ) =>
        tRet.result[1] = pRet.result[1]


(***************************************************************************)
(*                          Pipeline: claims                               *)
(***************************************************************************)

\* C23: a frame with a detection that leaves the window with fewer than
\* window_size vectors gives `buffering`, raises nothing and calls neither
\* the classifier nor the filter; and whenever the classifier is called, the
\* window it gets holds exactly window_size vectors.
C23_ClassifierOnlyOnFullWindow ==
    /\ (pfRet.detected /\ pfRet.len < pfRet.size) =>
            /\ pfRet.kind = "buffering"
            /\ pfRet.err = ""
            /\ ~pfRet.classified /\ ~pfRet.filtered
    /\ pfRet.classified => pfRet.len = pfRet.size

\* C24: a decoded frame gives exactly one event: `no_detection` when
\* nothing was extracted, the window, the filter history and the last
\* accepted prediction then being unchanged; else `buffering` when the window
\* holds fewer than window_size vectors; else `low_confidence` exactly when
\* filter returned None; else `recognition` with the label filter returned.
C24_OneEventInOrder ==
    (pfRet.frame /\ pfRet.decoded) =>
        /\ pfRet.kind \in {"no_detection", "buffering", "low_confidence",
                           "recognition"}
        /\ pfRet.kind = "no_detection" <=> ~pfRet.detected
        /\ ~pfRet.detected => pfRet.same
        /\ pfRet.kind = "buffering" <=>
               (pfRet.detected /\ pfRet.len < pfRet.size)
        /\ pfRet.kind \in {"low_confidence", "recognition"} =>
               /\ pfRet.filtered
               /\ pfRet.sign = fRet.out
               /\ pfRet.kind = "low_confidence" <=> fRet.out = None

====
